---- MODULE Spec2Model ----
(***************************************************************************)
(* A model of traviconda.py: the entry point, the command sequencer, the   *)
(* miniconda provisioner, the package build, the upload gate and the       *)
(* binstar publisher.                                                      *)
(*                                                                         *)
(* Child processes are the environment: a command either cannot be        *)
(* started (subprocess raises an OSError and no child runs) or ends with a *)
(* return code and some combined output, all chosen nondeterministically.  *)
(* `ran` records the children run through `co` (subprocess.check_output)   *)
(* and `uploads` the children run through `check` (subprocess.check_call), *)
(* each with the result the child produced; `upload_calls` records the     *)
(* arguments of every call of binstar_upload.  conda_build, which          *)
(* get_conda_build_path calls, is the environment too: it returns some     *)
(* artifact path or raises.  Text written to stdout by print is not part   *)
(* of the state.                                                           *)
(*                                                                         *)
(* Python's None and a variable missing from os.environ are the reserved   *)
(* strings None and Absent, which no input domain contains.  can_upload is *)
(* <<>> until resolve_can_upload_from_travis has returned, then <<b>> for  *)
(* the boolean b it returned.                                              *)
(***************************************************************************)
EXTENDS Integers, Sequences, FiniteSets, TLC

VARIABLES ns, env, pc, cmds, idx, ran, envReads, can_upload, channel,
          artifact, upload_calls, uploads, err

vars == <<ns, env, pc, cmds, idx, ran, envReads, can_upload, channel,
          artifact, upload_calls, uploads, err>>

None   == "<None>"
Absent == "<absent>"

\* Return codes a child process can end with are 0..MaxReturnCode.
MaxReturnCode == 2

ReturnCodes == 0..MaxReturnCode

\* The classes of the OSError subprocess raises for a program that cannot be
\* started: the subclass Python maps the errno to (ENOENT, EACCES, ENOTDIR,
\* EAGAIN), or plain OSError for an errno without one (ENOEXEC and others).
OSErrorKinds == {"OSError", "FileNotFoundError", "PermissionError",
                 "NotADirectoryError", "BlockingIOError"}

\* The classes of the exceptions that leave get_conda_build_path: the
\* imports of lines 67-68 fail, or MetaData or bldpkg_path raise or exit;
\* "Exception" stands for any other class.
LibraryErrorKinds == {"ImportError", "ModuleNotFoundError", "SystemExit",
                      "Exception"}

\* Paths bldpkg_path can return.
Artifacts == {"/conda-bld/linux-64/pkg-0.1-0.tar.bz2",
              "/conda-bld/linux-64/pkg-0.2-0.tar.bz2"}

\* Combined stdout/stderr a child process can produce.
Outputs == {"", "boom"}

\* Command-line arguments (argparse gives None for an option left out).
Modes    == {"setup", "build"}
Urls     == {None, "http://x/installer.sh"}
Channels == {None, "menpo"}
Paths    == {None, "/pkg"}
Users    == {None, "alice"}
Keys     == {None, "secret123", "alice"}

\* Values of the three Travis variables in os.environ.
PullRequests == {Absent, "true", "false", "", "1", "True"}
Branches     == {Absent, "", "release", "master"}
Tags         == {Absent, "", "release"}

-----------------------------------------------------------------------------
(* Module-level names, traviconda.py lines 36-42.  expanduser replaces the  *)
(* leading ~ by the home directory of the account running the script.     *)

Home              == "/home/travis"
miniconda_dir     == Home \o "/miniconda"
miniconda_bin_dir == miniconda_dir \o "/bin"
conda             == miniconda_bin_dir \o "/conda"
binstar           == miniconda_bin_dir \o "/binstar"
python            == "python"

-----------------------------------------------------------------------------
(* Exceptions.  One record shape for every kind:                           *)
(*   kind        "CalledProcessError", "KeyError", "ValueError",           *)
(*               "TypeError", one of OSErrorKinds or one of                *)
(*               LibraryErrorKinds                                         *)
(*   returncode  CalledProcessError.returncode (-1 for the other kinds)    *)
(*   cmd         CalledProcessError.cmd        (<<>> for the other kinds)  *)
(*   output      CalledProcessError.output     (None when not captured)    *)
(*   arg         the missing key of a KeyError (None otherwise)            *)
(*   context     cmd of the exception that was being handled when this one *)
(*               was raised (__context__), <<>> when there is none         *)

NoError == [kind |-> "none", returncode |-> -1, cmd |-> <<>>,
            output |-> None, arg |-> None, context |-> <<>>]

CalledProcessError(returncode, cmd, output) ==
    [kind |-> "CalledProcessError", returncode |-> returncode, cmd |-> cmd,
     output |-> output, arg |-> None, context |-> <<>>]

KeyError(name) ==
    [kind |-> "KeyError", returncode |-> -1, cmd |-> <<>>,
     output |-> None, arg |-> name, context |-> <<>>]

ValueError ==
    [kind |-> "ValueError", returncode |-> -1, cmd |-> <<>>,
     output |-> None, arg |-> None, context |-> <<>>]

TypeError ==
    [kind |-> "TypeError", returncode |-> -1, cmd |-> <<>>,
     output |-> None, arg |-> None, context |-> <<>>]

\* Raised by co (line 18) and by check (line 75) when the program cannot be
\* started; the errno, message and file name it carries are not kept.
OSError(kind) ==
    [kind |-> kind, returncode |-> -1, cmd |-> <<>>,
     output |-> None, arg |-> None, context |-> <<>>]

\* Raised inside get_conda_build_path (lines 67-69); what it carries is not
\* kept.
LibraryError(kind) ==
    [kind |-> kind, returncode |-> -1, cmd |-> <<>>,
     output |-> None, arg |-> None, context |-> <<>>]

\* One finished child process.
Proc(cmd, returncode, output) ==
    [cmd |-> cmd, returncode |-> returncode, output |-> output]

-----------------------------------------------------------------------------
(* Pure helpers.                                                           *)

\* The command list of setup_miniconda, lines 47-55.
setup_cmds_always_channel(url, chan) ==
    << <<"wget", "-nv", url, "-O", "miniconda.sh">>,
       <<python, "miniconda.sh", "-b", "-p", miniconda_dir>>,
       <<conda, "update", "-q", "--yes", "conda">>,
       <<conda, "install", "-q", "--yes", "conda-build", "jinja2", "binstar">>,
       <<conda, "config", "--add", "channels", chan>> >>

setup_cmds(url, chan) ==
    LET miniconda_file == "miniconda.sh"
        base == << <<"wget", "-nv", url, "-O", miniconda_file>>,
                   <<python, miniconda_file, "-b", "-p", miniconda_dir>>,
                   <<conda, "update", "-q", "--yes", "conda">>,
                   <<conda, "install", "-q", "--yes",
                     "conda-build", "jinja2", "binstar">> >>
    IN  IF chan # None
        THEN Append(base, <<conda, "config", "--add", "channels", chan>>)
        ELSE base

\* Line 27: no caller passes verbose, so execute_sequence runs every command
\* with verbose = True.
verbose == TRUE

\* Line 17: ' '.join(cmd) raises TypeError when a token of cmd is None.
join_fails(cmd) == \E j \in 1..Len(cmd) : cmd[j] = None

\* The command of build, line 63.
build_cmd(path) == <<conda, "build", "-q", path>>

\* The command of binstar_upload, lines 75-76.
upload_cmd_user_channel_swapped(key, user, chan, path) ==
    <<binstar, "-t", key, "upload", "--force", "-u", chan, "-c", user, path>>

upload_cmd(key, user, chan, path) ==
    <<binstar, "-t", key, "upload", "--force", "-u", user, "-c", chan, path>>

\* Lines 79-80: cmd = e.cmd; cmd[2] = 'BINSTAR_KEY'  (Python index 2 is the
\* third token).
mask_off_by_one(cmd) == [cmd EXCEPT ![2] = "BINSTAR_KEY"]

mask(cmd) == [cmd EXCEPT ![3] = "BINSTAR_KEY"]

\* Lines 77-82: the error binstar_upload raises for a failed upload.  check
\* does not capture output, so the caught error has none, and the new error
\* is built from returncode and cmd only.  e.cmd is the list that was passed
\* to check and is masked in place, so the chained original error shows the
\* masked list too.
upload_error_with_output(returncode, cmd, output) ==
    [CalledProcessError(returncode, mask(cmd), output)
        EXCEPT !.context = mask(cmd)]

upload_error(returncode, cmd, output) ==
    [CalledProcessError(returncode, mask(cmd), None)
        EXCEPT !.context = mask(cmd)]

\* Lines 104-105 on a present variable: is_a_pr = (value == 'true').
can_upload_unless_false(pr) == pr = "false"

can_upload_of(pr) ==
    LET is_a_pr == (pr = "true")
    IN  ~is_a_pr

\* Line 104: os.environ['TRAVIS_PULL_REQUEST'] raises KeyError when the
\* variable is not set.
pr_lookup_fails_never(e) == FALSE

pr_lookup_fails(e) == e.TRAVIS_PULL_REQUEST = Absent

\* Lines 115-122.
channel_of_ignoring_empty_tag(branch, tag) ==
    IF branch = tag THEN "main" ELSE branch

channel_of(branch, tag) ==
    IF tag # "" /\ branch = tag THEN "main" ELSE branch

\* Line 93.
no_credentials_if_both_missing(user, key) == user = None /\ key = None

no_credentials(user, key) == user = None \/ key = None

-----------------------------------------------------------------------------
(* State after argument parsing (line 143), before the mode dispatch.      *)

Init ==
    /\ ns \in [mode : Modes, url : Urls, channel : Channels,
               path : Paths, user : Users, key : Keys]
    /\ env \in [TRAVIS_PULL_REQUEST : PullRequests,
                TRAVIS_BRANCH : Branches,
                TRAVIS_TAG : Tags]
    /\ pc = "start"
    /\ cmds = <<>>
    /\ idx = 1
    /\ ran = <<>>
    /\ envReads = <<>>
    /\ can_upload = <<>>
    /\ channel = None
    /\ artifact = None
    /\ upload_calls = <<>>
    /\ uploads = <<>>
    /\ err = NoError

-----------------------------------------------------------------------------
(* Entry point, lines 145-152.                                             *)

\* Lines 145-149: setup mode without --url raises ValueError.
main_setup_no_url ==
    /\ pc = "start"
    /\ ns.mode = "setup"
    /\ ns.url = None
    /\ err' = ValueError
    /\ pc' = "raised"
    /\ UNCHANGED <<ns, env, cmds, idx, ran, envReads, can_upload, channel,
                   uploads,
                   upload_calls, artifact>>

\* Lines 150, 45-59: setup_miniconda builds its command list and enters
\* execute_sequence.
setup_miniconda ==
    /\ pc = "start"
    /\ ns.mode = "setup"
    /\ ns.url # None
    /\ cmds' = setup_cmds(ns.url, ns.channel)
    /\ idx' = 1
    /\ pc' = "seq"
    /\ UNCHANGED <<ns, env, ran, envReads, can_upload, channel, uploads,
                   upload_calls, artifact, err>>

\* Lines 152, 85-88, 62-63: build_and_upload calls build, which enters
\* execute_sequence with the single build command.
build_and_upload ==
    /\ pc = "start"
    /\ ns.mode = "build"
    /\ cmds' = <<build_cmd(ns.path)>>
    /\ idx' = 1
    /\ pc' = "seq"
    /\ UNCHANGED <<ns, env, ran, envReads, can_upload, channel, uploads,
                   upload_calls, artifact, err>>

-----------------------------------------------------------------------------
(* Command sequencer, lines 13-33.  idx is the 1-based position of the     *)
(* next command of the for loop.                                           *)

\* One iteration of the loop.  execute(cmd, verbose) first echoes the command
\* (lines 16-17): a None token makes the join raise TypeError before any
\* child is started, and execute_sequence, which catches CalledProcessError
\* only, lets it through.  Otherwise co(cmd) either cannot start the program
\* and raises an OSError, which passes line 31 as well, or runs the child; a
\* non-zero exit raises CalledProcessError(returncode, cmd, output), which
\* line 31 catches and line 33 re-raises.
execute_skipping_after_failure ==
    /\ pc = "seq"
    /\ idx <= Len(cmds)
    /\ IF verbose /\ join_fails(cmds[idx])
       THEN /\ err' = TypeError
            /\ pc' = "raised"
            /\ UNCHANGED <<ran, idx>>
       ELSE
            \/ \E kind \in OSErrorKinds :
                 /\ err' = OSError(kind)
                 /\ pc' = "raised"
                 /\ UNCHANGED <<ran, idx>>
            \/ \E rc \in ReturnCodes, out \in Outputs :
                 /\ ran' = Append(ran, Proc(cmds[idx], rc, out))
                 /\ IF rc = 0
                    THEN /\ idx' = idx + 1
                         /\ pc' = pc
                         /\ err' = err
                    ELSE /\ idx' = idx + 1
                         /\ pc' = IF idx = Len(cmds) THEN "raised" ELSE pc
                         /\ err' = CalledProcessError(rc, cmds[idx], out)
    /\ UNCHANGED <<ns, env, cmds, envReads, can_upload, channel, uploads,
                   upload_calls, artifact>>

execute ==
    /\ pc = "seq"
    /\ idx <= Len(cmds)
    /\ IF verbose /\ join_fails(cmds[idx])
       THEN /\ err' = TypeError
            /\ pc' = "raised"
            /\ UNCHANGED <<ran, idx>>
       ELSE
            \/ \E kind \in OSErrorKinds :
                 /\ err' = OSError(kind)
                 /\ pc' = "raised"
                 /\ UNCHANGED <<ran, idx>>
            \/ \E rc \in ReturnCodes, out \in Outputs :
                 /\ ran' = Append(ran, Proc(cmds[idx], rc, out))
                 /\ IF rc = 0
                    THEN /\ idx' = idx + 1
                         /\ pc' = pc
                         /\ err' = err
                    ELSE /\ idx' = idx
                         /\ pc' = "raised"
                         /\ err' = CalledProcessError(rc, cmds[idx], out)
    /\ UNCHANGED <<ns, env, cmds, envReads, can_upload, channel, uploads,
                   upload_calls, artifact>>

\* The loop is exhausted: execute_sequence returns.  setup_miniconda then
\* returns to the entry point (line 59); build returns into build_and_upload
\* (line 88).
execute_sequence_return ==
    /\ pc = "seq"
    /\ idx > Len(cmds)
    /\ pc' = IF ns.mode = "setup" THEN "done" ELSE "built"
    /\ UNCHANGED <<ns, env, cmds, idx, ran, envReads, can_upload, channel,
                   uploads,
                   upload_calls, artifact, err>>

-----------------------------------------------------------------------------
(* build_and_upload after the build, lines 89-100.                         *)

\* Lines 89-95: without a user or without a key, return.
check_credentials ==
    /\ pc = "built"
    /\ pc' = IF no_credentials(ns.user, ns.key) THEN "done" ELSE "gate"
    /\ UNCHANGED <<ns, env, cmds, idx, ran, envReads, can_upload, channel,
                   uploads,
                   upload_calls, artifact, err>>

\* Lines 97, 103-107: resolve_can_upload_from_travis; a pull request build
\* falls off the end of build_and_upload.
resolve_can_upload_from_travis ==
    /\ pc = "gate"
    /\ envReads' = Append(envReads, "TRAVIS_PULL_REQUEST")
    /\ IF pr_lookup_fails(env)
       THEN /\ err' = KeyError("TRAVIS_PULL_REQUEST")
            /\ pc' = "raised"
            /\ UNCHANGED can_upload
       ELSE /\ can_upload' = <<can_upload_of(env.TRAVIS_PULL_REQUEST)>>
            /\ pc' = IF can_upload'[1] THEN "channel" ELSE "done"
            /\ UNCHANGED err
    /\ UNCHANGED <<ns, env, cmds, idx, ran, channel, uploads,
                   upload_calls, artifact>>

\* Lines 98, 110-122: resolve_channel_from_travis_state reads the branch,
\* then the tag.
resolve_channel_from_travis_state ==
    /\ pc = "channel"
    /\ IF env.TRAVIS_BRANCH = Absent
       THEN /\ envReads' = Append(envReads, "TRAVIS_BRANCH")
            /\ err' = KeyError("TRAVIS_BRANCH")
            /\ pc' = "raised"
            /\ UNCHANGED channel
       ELSE IF env.TRAVIS_TAG = Absent
       THEN /\ envReads' = envReads \o <<"TRAVIS_BRANCH", "TRAVIS_TAG">>
            /\ err' = KeyError("TRAVIS_TAG")
            /\ pc' = "raised"
            /\ UNCHANGED channel
       ELSE /\ envReads' = envReads \o <<"TRAVIS_BRANCH", "TRAVIS_TAG">>
            /\ channel' = channel_of(env.TRAVIS_BRANCH, env.TRAVIS_TAG)
            /\ pc' = "path"
            /\ UNCHANGED err
    /\ UNCHANGED <<ns, env, cmds, idx, ran, can_upload, uploads,
                   upload_calls, artifact>>

\* Lines 100, 66-69: the argument get_conda_build_path(path) is evaluated
\* before binstar_upload is entered.  The imports and the two conda_build
\* calls either raise, which ends the run, or return an artifact path.
get_conda_build_path ==
    /\ pc = "path"
    /\ \/ \E kind \in LibraryErrorKinds :
            /\ err' = LibraryError(kind)
            /\ pc' = "raised"
            /\ UNCHANGED artifact
       \/ \E a \in Artifacts :
            /\ artifact' = a
            /\ pc' = "upload"
            /\ UNCHANGED err
    /\ UNCHANGED <<ns, env, cmds, idx, ran, envReads, can_upload, channel,
                   upload_calls, uploads>>

\* Lines 100, 72-82: binstar_upload runs the upload through check.  A
\* binstar that cannot be started raises an OSError, which the except of
\* line 77 (CalledProcessError only) does not catch.
binstar_upload ==
    /\ pc = "upload"
    /\ LET cmd == upload_cmd(ns.key, ns.user, channel, artifact)
       IN  /\ upload_calls' = Append(upload_calls,
                                     [key |-> ns.key, user |-> ns.user,
                                      channel |-> channel, path |-> artifact])
           /\ \/ \E kind \in OSErrorKinds :
                    /\ err' = OSError(kind)
                    /\ pc' = "raised"
                    /\ UNCHANGED uploads
              \/ \E rc \in ReturnCodes, out \in Outputs :
                    /\ uploads' = Append(uploads, Proc(cmd, rc, out))
                    /\ IF rc = 0
                       THEN /\ pc' = "done"
                            /\ err' = err
                       ELSE /\ pc' = "raised"
                            /\ err' = upload_error(rc, cmd, out)
    /\ UNCHANGED <<ns, env, cmds, idx, ran, envReads, can_upload, channel,
                   artifact>>

-----------------------------------------------------------------------------

Next ==
    \/ main_setup_no_url
    \/ setup_miniconda
    \/ build_and_upload
    \/ execute
    \/ execute_sequence_return
    \/ check_credentials
    \/ resolve_can_upload_from_travis
    \/ resolve_channel_from_travis_state
    \/ get_conda_build_path
    \/ binstar_upload

Spec == Init /\ [][Next]_vars

TypeOK ==
    /\ pc \in {"start", "seq", "built", "gate", "channel", "path", "upload",
               "done", "raised"}
    /\ idx \in 1..(Len(cmds) + 1)
    /\ can_upload \in {<<>>, <<TRUE>>, <<FALSE>>}
    /\ (pc = "raised") = (err # NoError)

-----------------------------------------------------------------------------
(* Shorthands for the properties below.                                    *)

Last(s) == s[Len(s)]

\* A command run by the sequencer has exited non-zero.
SequencerFailed == ran # <<>> /\ Last(ran).returncode # 0

\* The upload command has exited non-zero.
UploadFailed == uploads # <<>> /\ Last(uploads).returncode # 0

BuildSucceeded ==
    ns.mode = "build" /\ Len(ran) = 1 /\ ran[1].returncode = 0 /\ pc # "seq"

HasCredentials == ns.user # None /\ ns.key # None

EnvPresent ==
    /\ env.TRAVIS_PULL_REQUEST # Absent
    /\ env.TRAVIS_BRANCH # Absent
    /\ env.TRAVIS_TAG # Absent

Terminated == pc \in {"done", "raised"}

\* A program could not be started.
SpawnFailed == err.kind \in OSErrorKinds

\* The run ended inside execute_sequence: nothing that follows the sequencer
\* has happened and the error is not the entry point's own ValueError.
RaisedInSequencer ==
    /\ pc = "raised"
    /\ err.kind # "ValueError"
    /\ envReads = <<>>
    /\ upload_calls = <<>>

\* The run ended inside binstar_upload.
RaisedInPublisher == pc = "raised" /\ upload_calls # <<>>

\* The first of the three Travis variables that is not set, in the order the
\* code reads them.
FirstMissing ==
    IF env.TRAVIS_PULL_REQUEST = Absent THEN "TRAVIS_PULL_REQUEST"
    ELSE IF env.TRAVIS_BRANCH = Absent THEN "TRAVIS_BRANCH"
    ELSE "TRAVIS_TAG"

\* Every string an exception carries.
ErrorStrings(e) ==
    {e.cmd[j] : j \in 1..Len(e.cmd)} \cup
    {e.context[j] : j \in 1..Len(e.context)} \cup {e.output, e.arg}

-----------------------------------------------------------------------------
\* C1: execute_sequence starts its commands in input order, one at a time;
\* every command started before the last one exited 0, so nothing is started
\* after the first failure; when command i exits non-zero exactly the
\* commands up to i have been started and the CalledProcessError of command
\* i is raised; and when the run ends in the sequencer with any other error
\* (command i could not be run at all) exactly the commands before i have
\* been started and all of them exited 0.
C1_SequencerFailFast ==
    /\ Len(ran) <= Len(cmds)
    /\ \A j \in 1..Len(ran) : ran[j].cmd = cmds[j]
    /\ \A j \in 1..(Len(ran) - 1) : ran[j].returncode = 0
    /\ ~SequencerFailed => Len(ran) = idx - 1
    /\ SequencerFailed =>
         /\ pc = "raised"
         /\ Len(ran) = idx
         /\ err = CalledProcessError(Last(ran).returncode, cmds[idx],
                                     Last(ran).output)
    /\ RaisedInSequencer =>
         /\ idx <= Len(cmds)
         /\ err.kind = "CalledProcessError" <=> SequencerFailed
         /\ err.kind # "CalledProcessError" =>
              /\ Len(ran) = idx - 1
              /\ \A j \in 1..Len(ran) : ran[j].returncode = 0

C1_Witness ==
    /\ Len(cmds) = 5
    /\ Len(ran) = 3
    /\ ran[3].returncode # 0
    /\ pc = "raised"

\* C2: without a user or without a key binstar_upload is never called, no
\* upload command is run and the environment is never consulted, whatever
\* the three Travis variables hold; once the build has succeeded the run ends
\* normally.
C2_NoCredentialsNoUpload ==
    (ns.mode = "build" /\ (ns.user = None \/ ns.key = None)) =>
        /\ upload_calls = <<>>
        /\ uploads = <<>>
        /\ envReads = <<>>
        /\ BuildSucceeded => (pc \in {"built", "done"} /\ err = NoError)

C2_Witness ==
    /\ ns.mode = "build"
    /\ ns.user = None
    /\ ns.key = "secret123"
    /\ env.TRAVIS_PULL_REQUEST = "false"
    /\ BuildSucceeded
    /\ pc = "done"

\* C3 as stated: after a failed upload the raised error has BINSTAR_KEY in
\* the key position and the key string is in no field of any error
\* binstar_upload raises, for every key, user, channel and path.
C3_KeyNeverInError ==
    /\ UploadFailed => err.cmd[3] = "BINSTAR_KEY"
    /\ RaisedInPublisher => ns.key \notin ErrorStrings(err)

\* C3 amended: after a failed upload the raised error (and the error it was
\* raised from) has BINSTAR_KEY in the key position and no captured output;
\* the key string is in no field of the error unless the same string is the
\* placeholder itself or is also another token of the command.  Any other
\* error binstar_upload raises is not a CalledProcessError, comes from an
\* upload that was never started and carries no command.
C3_KeyPositionMasked ==
    /\ UploadFailed =>
        LET cmd == Last(uploads).cmd
        IN  /\ RaisedInPublisher
            /\ cmd[3] = ns.key
            /\ err.cmd[3] = "BINSTAR_KEY"
            /\ err.context[3] = "BINSTAR_KEY"
            /\ \A j \in (1..Len(cmd)) \ {3} :
                 err.cmd[j] = cmd[j] /\ err.context[j] = cmd[j]
            /\ (ns.key # "BINSTAR_KEY"
                /\ \A j \in (1..Len(cmd)) \ {3} : cmd[j] # ns.key)
               => ns.key \notin ErrorStrings(err)
    /\ (RaisedInPublisher /\ ~UploadFailed) =>
         /\ err.kind # "CalledProcessError"
         /\ uploads = <<>>
         /\ err.cmd = <<>>
         /\ err.context = <<>>
         /\ ns.key \notin ErrorStrings(err)

C3_Witness ==
    /\ UploadFailed
    /\ ns.key = "secret123"
    /\ ns.user = "alice"
    /\ pc = "raised"

\* C4: resolve_can_upload_from_travis returns False when TRAVIS_PULL_REQUEST
\* is exactly "true" and True for every other string.
C4_EligibilityExactMatch ==
    can_upload # <<>> =>
        /\ env.TRAVIS_PULL_REQUEST = "true" => can_upload[1] = FALSE
        /\ env.TRAVIS_PULL_REQUEST # "true" => can_upload[1] = TRUE

C4_Witness ==
    /\ can_upload = <<TRUE>>
    /\ env.TRAVIS_PULL_REQUEST = "True"

\* C5: resolve_channel_from_travis_state returns "main" when the tag is not
\* empty and equals the branch, and the branch itself otherwise, the empty
\* branch included.
C5_ChannelResolution ==
    channel # None =>
        LET branch == env.TRAVIS_BRANCH
            tag    == env.TRAVIS_TAG
        IN  /\ (tag # "" /\ tag = branch) => channel = "main"
            /\ (tag = "" \/ tag # branch) => channel = branch

C5_Witness ==
    /\ env.TRAVIS_BRANCH = ""
    /\ env.TRAVIS_TAG = ""
    /\ channel = ""

C7_SetupSequence ==
    (ns.mode = "setup" /\ pc # "start" /\ ns.url # None) =>
        /\ Len(cmds) = IF ns.channel # None THEN 5 ELSE 4
        /\ cmds[1] = <<"wget", "-nv", ns.url, "-O", "miniconda.sh">>
        /\ cmds[2] = <<"python", "miniconda.sh", "-b", "-p",
                       "/home/travis/miniconda">>
        /\ cmds[3] = <<"/home/travis/miniconda/bin/conda", "update", "-q",
                       "--yes", "conda">>
        /\ cmds[4] = <<"/home/travis/miniconda/bin/conda", "install", "-q",
                       "--yes", "conda-build", "jinja2", "binstar">>
        /\ ns.channel # None =>
             cmds[5] = <<"/home/travis/miniconda/bin/conda", "config",
                         "--add", "channels", ns.channel>>
        /\ \A j \in 1..Len(cmds) : cmds[j][3] = "--add" => j = 5

C7_Witness ==
    /\ ns.mode = "setup"
    /\ ns.channel = None
    /\ pc = "done"
    /\ Len(ran) = 4

\* C8 as stated: with TRAVIS_PULL_REQUEST missing from the environment the
\* eligibility check answers True.
C8_AbsentMeansEligible ==
    (env.TRAVIS_PULL_REQUEST = Absent /\ envReads # <<>>) =>
        can_upload = <<TRUE>>

\* C8 amended: with TRAVIS_PULL_REQUEST missing from the environment the
\* eligibility check raises KeyError for that variable; it returns no value,
\* the run ends there and nothing is uploaded.
C8_AbsentRaisesKeyError ==
    (env.TRAVIS_PULL_REQUEST = Absent /\ envReads # <<>>) =>
        /\ pc = "raised"
        /\ err = KeyError("TRAVIS_PULL_REQUEST")
        /\ can_upload = <<>>
        /\ envReads = <<"TRAVIS_PULL_REQUEST">>
        /\ channel = None
        /\ upload_calls = <<>>
        /\ uploads = <<>>

C8_Witness ==
    /\ env.TRAVIS_PULL_REQUEST = Absent
    /\ envReads # <<>>
    /\ BuildSucceeded
    /\ pc = "raised"

C10_BuildFirst ==
    ns.mode = "build" =>
        /\ pc # "start" => cmds = <<build_cmd(ns.path)>>
        /\ Len(ran) <= 1
        /\ pc \notin {"start", "seq"} =>
             \/ Len(ran) = 1
             \/ (ran = <<>> /\ pc = "raised" /\ SpawnFailed)
        /\ (envReads # <<>> \/ can_upload # <<>> \/ channel # None
               \/ upload_calls # <<>> \/ uploads # <<>>
               \/ pc \in {"built", "gate", "channel", "upload", "done"})
             => BuildSucceeded
        /\ (SequencerFailed \/ (SpawnFailed /\ ran = <<>>)) =>
             /\ pc = "raised"
             /\ envReads = <<>>
             /\ can_upload = <<>>
             /\ channel = None
             /\ upload_calls = <<>>
             /\ uploads = <<>>
        /\ SequencerFailed => err.kind = "CalledProcessError"
        /\ pc = "done" =>
             \/ (~HasCredentials /\ envReads = <<>> /\ upload_calls = <<>>)
             \/ (HasCredentials /\ can_upload = <<FALSE>> /\ channel = None
                    /\ upload_calls = <<>>)
             \/ (HasCredentials /\ can_upload = <<TRUE>> /\ channel # None
                    /\ Len(upload_calls) = 1 /\ Len(uploads) = 1
                    /\ uploads[1].returncode = 0)

====
